---------------------------- MODULE Spec2Model ----------------------------
(***************************************************************************)
(* Lorentz (hyperboloid) embeddings trained with Riemannian SGD:           *)
(* marco.py.  The tensors hold floating-point numbers; the model keeps     *)
(* the IEEE behaviour the code depends on (rounding to a fixed number of   *)
(* mantissa bits, overflow to +-Inf, NaN from 0/0, Inf-Inf, 0*Inf and the  *)
(* square root of a negative number, comparisons with NaN false) in a      *)
(* binary format with MantBits mantissa bits and exponents up to MaxExp.   *)
(* Signed zero is not modelled.                                            *)
(***************************************************************************)
EXTENDS Integers, Sequences, FiniteSets, TLC

VARIABLES
    table,      \* Lorentz.table.weight: sequence of rows, each a sequence of D floats
    grad,       \* table.weight.grad: None, or one gradient row per table row
    pre,        \* history: the table as RSGD.step found it
    retr,       \* history: what exp_map returned inside the last RSGD.step
    nsteps,     \* number of RSGD.step calls made so far
    arg_x,      \* exp_map: the batch of points x
    arg_v,      \* exp_map: the batch of tangent vectors v
    result,     \* exp_map: the returned batch, None before the call
    pairs,      \* __main__: the set of (question, document) edges
    todo,       \* __main__: the pairs the sample loop has not visited yet
    I,          \* __main__: anchor index of each sample row
    Ks,         \* __main__: candidate indices of each sample row
    pc,         \* __main__: position of the script
    epoch,      \* __main__: epoch counter of the training loop
    j,          \* __main__: offset of the current batch into I and Ks
    loss,       \* __main__: class of the loss summed over the epoch
    loss_batch, \* __main__: class of the loss of the current batch
    snap,       \* __main__: what the name `table` returned by net(...) refers to
    atForward,  \* history: the contents of the table when net(...) returned
    touched,    \* history: the table rows indexed by the current batch
    plotted     \* <<what dikhaao was last given to draw, atForward then>>, None before

optVars == <<table, grad, pre, retr, nsteps>>
mapVars == <<arg_x, arg_v, result>>
sampleVars == <<pairs, todo, I, Ks>>
trainVars == <<epoch, j, loss, loss_batch, snap, atForward, touched, plotted>>
vars == <<optVars, mapVars, sampleVars, pc, trainVars>>

-----------------------------------------------------------------------------
(* Bounds of the model *)

MantBits == 11
MaxExp == 7
ExpDepth == 40
MinExp == -ExpDepth
MaxSteps == 3
n_items == 2
InitRange == 2

-----------------------------------------------------------------------------
(* Floating point: a number is <<m, e>>, standing for m * 2^e, with        *)
(* |m| < 2^MantBits; e = MaxExp + 1 marks NaN (m = 0), +Inf (m = 1) and     *)
(* -Inf (m = -1).                                                          *)

SpecialExp == MaxExp + 1
NaN == <<0, SpecialExp>>
PInf == <<1, SpecialExp>>
NInf == <<-1, SpecialExp>>
Zero == <<0, MinExp>>

Abs(n) == IF n < 0 THEN -n ELSE n
Sign(n) == IF n > 0 THEN 1 ELSE IF n < 0 THEN -1 ELSE 0
Max2(a, b) == IF a >= b THEN a ELSE b
Min2(a, b) == IF a <= b THEN a ELSE b

(* number of bits of a natural number below 2^31 *)
BitLen(a) ==
    IF a < 65536
    THEN IF a < 256
         THEN IF a < 16
              THEN IF a < 4 THEN (IF a < 2 THEN a ELSE 2) ELSE (IF a < 8 THEN 3 ELSE 4)
              ELSE IF a < 64 THEN (IF a < 32 THEN 5 ELSE 6) ELSE (IF a < 128 THEN 7 ELSE 8)
         ELSE IF a < 4096
              THEN IF a < 1024 THEN (IF a < 512 THEN 9 ELSE 10) ELSE (IF a < 2048 THEN 11 ELSE 12)
              ELSE IF a < 16384 THEN (IF a < 8192 THEN 13 ELSE 14) ELSE (IF a < 32768 THEN 15 ELSE 16)
    ELSE IF a < 16777216
         THEN IF a < 1048576
              THEN IF a < 262144 THEN (IF a < 131072 THEN 17 ELSE 18)
                                 ELSE (IF a < 524288 THEN 19 ELSE 20)
              ELSE IF a < 4194304 THEN (IF a < 2097152 THEN 21 ELSE 22)
                                  ELSE (IF a < 8388608 THEN 23 ELSE 24)
         ELSE IF a < 268435456
              THEN IF a < 67108864 THEN (IF a < 33554432 THEN 25 ELSE 26)
                                   ELSE (IF a < 134217728 THEN 27 ELSE 28)
              ELSE IF a < 1073741824 THEN (IF a < 536870912 THEN 29 ELSE 30) ELSE 31

Inf(s) == IF s > 0 THEN PInf ELSE NInf

isnan(a) == a = NaN
isinf(a) == a = PInf \/ a = NInf
IsFinite(a) == a[2] # SpecialExp

(* The float nearest to M * 2^E: round to nearest, ties to even; gradual   *)
(* underflow; overflow to +-Inf.                                           *)
Round(M, E) ==
    IF M = 0 THEN Zero
    ELSE LET s == Sign(M)
             A == Abs(M)
             b == BitLen(A)
             sh == Max2(b - MantBits, MinExp - E)
         IN IF sh <= 0
            THEN LET left == Min2(MantBits - b, E - MinExp)
                 IN IF E - left > MaxExp THEN Inf(s)
                    ELSE <<s * A * 2^left, E - left>>
            ELSE IF sh > b THEN Zero
            ELSE LET q == A \div 2^sh
                     r == A % 2^sh
                     half == 2^(sh - 1)
                     up == IF r > half \/ (r = half /\ q % 2 = 1) THEN 1 ELSE 0
                     carry == (q + up = 2^MantBits)
                     q2 == IF carry THEN 2^(MantBits - 1) ELSE q + up
                     E2 == IF carry THEN E + sh + 1 ELSE E + sh
                 IN IF q2 = 0 THEN Zero
                    ELSE IF E2 > MaxExp THEN Inf(s)
                    ELSE <<s * q2, E2>>

One == Round(1, 0)
Half == Round(1, -1)
FromInt(n) == Round(n, 0)
Neg(a) == <<-a[1], a[2]>>

Add(a, b) ==
    IF isnan(a) \/ isnan(b) THEN NaN
    ELSE IF isinf(a) THEN (IF isinf(b) /\ b # a THEN NaN ELSE a)
    ELSE IF isinf(b) THEN b
    ELSE IF a[1] = 0 THEN b
    ELSE IF b[1] = 0 THEN a
    ELSE LET hi == IF a[2] >= b[2] THEN a ELSE b
             lo == IF a[2] >= b[2] THEN b ELSE a
             d == hi[2] - lo[2]
         IN IF d > MantBits + 1 THEN hi
            ELSE Round(hi[1] * 2^d + lo[1], lo[2])

Sub(a, b) == Add(a, Neg(b))

Mul(a, b) ==
    IF isnan(a) \/ isnan(b) THEN NaN
    ELSE IF isinf(a) \/ isinf(b)
         THEN (IF a[1] = 0 \/ b[1] = 0 THEN NaN ELSE Inf(Sign(a[1]) * Sign(b[1])))
    ELSE Round(a[1] * b[1], a[2] + b[2])

Div(a, b) ==
    IF isnan(a) \/ isnan(b) THEN NaN
    ELSE IF isinf(a)
         THEN (IF isinf(b) THEN NaN
               ELSE Inf(Sign(a[1]) * (IF b[1] >= 0 THEN 1 ELSE -1)))
    ELSE IF isinf(b) THEN Zero
    ELSE IF b[1] = 0 THEN (IF a[1] = 0 THEN NaN ELSE Inf(Sign(a[1])))
    ELSE IF a[1] = 0 THEN Zero
    ELSE LET k == 29 - BitLen(Abs(a[1]))
             N == Abs(a[1]) * 2^k
             q == N \div Abs(b[1])
             r == N % Abs(b[1])
         IN Round(Sign(a[1]) * Sign(b[1]) * (2 * q + (IF r # 0 THEN 1 ELSE 0)),
                  a[2] - b[2] - k - 1)

RECURSIVE ISqrtBits(_, _, _)
ISqrtBits(n, i, r) ==
    IF i < 0 THEN r
    ELSE LET c == r + 2^i
         IN ISqrtBits(n, i - 1, IF c * c <= n THEN c ELSE r)

Sqrt(a) ==
    IF isnan(a) \/ a = NInf THEN NaN
    ELSE IF a = PInf THEN PInf
    ELSE IF a[1] < 0 THEN NaN
    ELSE IF a[1] = 0 THEN Zero
    ELSE LET k0 == 29 - BitLen(a[1])
             k == IF (a[2] - k0) % 2 = 0 THEN k0 ELSE k0 - 1
             A == a[1] * 2^k
             r == ISqrtBits(A, 14, 0)
         IN Round(2 * r + (IF r * r # A THEN 1 ELSE 0), ((a[2] - k) \div 2) - 1)

(* x > 0 and x < y as the tensors compare: false when an operand is NaN *)
Gt0(a) == a = PInf \/ (IsFinite(a) /\ a[1] > 0)

Lt(a, b) ==
    IF isnan(a) \/ isnan(b) \/ a = b THEN FALSE
    ELSE IF a = NInf \/ b = PInf THEN TRUE
    ELSE IF a = PInf \/ b = NInf THEN FALSE
    ELSE Sub(a, b)[1] < 0

(* exp, by argument reduction t = n*ln2 + r and a polynomial in r *)
Ln2 == Round(726817, -20)
InvLn2 == Round(1512775, -20)

Floor(a) ==
    IF a[2] >= 0 THEN a[1] * 2^(a[2])
    ELSE IF -a[2] > 30 THEN 0
    ELSE a[1] \div 2^(-a[2])

Scale(a, k) == Round(a[1], a[2] + k)

RECURSIVE ExpPoly(_, _, _)
ExpPoly(r, i, acc) ==
    IF i = 0 THEN acc
    ELSE ExpPoly(r, i - 1, Add(One, Mul(Div(r, FromInt(i)), acc)))

ExpSmall(r) == ExpPoly(r, 6, One)

TooBig(t) == t[2] + BitLen(Abs(t[1])) > 8
ExpN(t) == Floor(Add(Mul(t, InvLn2), Half))

(* <<e^t / 2, e^-t / 2>> from er = e^(t - n*ln2) *)
ExpHalvesOf(er, n) == <<Scale(er, n - 1), Scale(Div(One, er), -n - 1)>>

ExpReduced(t, n) == ExpSmall(Sub(t, Mul(FromInt(n), Ln2)))

(* <<e^t / 2, e^-t / 2>> for a finite t >= 0 that is not TooBig *)
ExpHalves(t) == ExpHalvesOf(ExpReduced(t, ExpN(t)), ExpN(t))

(* <<cosh, sinh>> from the two halves, for an argument of sign s *)
CoshSinhOf(eh, s) ==
    <<Add(eh[1], eh[2]), IF s >= 0 THEN Sub(eh[1], eh[2]) ELSE Neg(Sub(eh[1], eh[2]))>>

CoshSinhAbs(u, s) ==
    IF TooBig(u) THEN <<PInf, Inf(s)>> ELSE CoshSinhOf(ExpHalves(u), s)

(* <<cosh(t), sinh(t)>> *)
CoshSinh(t) ==
    IF isnan(t) THEN <<NaN, NaN>>
    ELSE IF isinf(t) THEN <<PInf, t>>
    ELSE CoshSinhAbs(<<Abs(t[1]), t[2]>>, Sign(t[1]))

-----------------------------------------------------------------------------
(* Geometry primitives *)

dim == 3
Rows == 1..n_items
Cols == 1..dim

(* a tensor is a sequence whose entries have been computed *)
Tensor(s) == s \o <<>>

RECURSIVE SumFrom(_, _, _)
SumFrom(s, i, acc) == IF i > Len(s) THEN acc ELSE SumFrom(s, i + 1, Add(acc, s[i]))

(* m[:, 1:].sum(dim=1) - m[:, 0], for one row *)
LorentzSum(m) == Sub(SumFrom(m, 2, Zero), m[1])

(* m = x * y; result = m[:, 1:].sum(dim=1) - m[:, 0], for one row *)
lorentz_scalar_product(x, y) == LorentzSum(Tensor([c \in Cols |-> Mul(x[c], y[c])]))

tangent_norm(x) == Sqrt(lorentz_scalar_product(x, x))

(* torch.norm: the square root of the sum of the squares *)
norm(s) == Sqrt(SumFrom(Tensor([i \in 1..Len(s) |-> Mul(s[i], s[i])]), 1, Zero))

(* cosh(tn) * x + sinh(tn) * (v / tn) with cs = <<cosh(tn), sinh(tn)>> *)
ExpMapRow(x, v, tn, cs) ==
    Tensor([c \in Cols |-> Add(Mul(cs[1], x[c]), Mul(cs[2], Div(v[c], tn)))])

(* cosh(tn) * x + sinh(tn) * (v / tn), for one row with tangent norm tn *)
exp_map_result(x, v, tn) == ExpMapRow(x, v, tn, CoshSinh(tn))

(* mutant: the result returned without the torch.where guard *)
exp_map_whereUnguarded(x, v, tn) == exp_map_result(x, v, tn)

(* torch.where(tn_expand > 0, result, x), for one row *)
exp_map_where(x, v, tn) == IF Gt0(tn) THEN exp_map_result(x, v, tn) ELSE x

(* exp_map on a batch *)
exp_map(x, v) ==
    Tensor([r \in 1..Len(x) |-> exp_map_where(x[r], v[r], tangent_norm(v[r]))])

-----------------------------------------------------------------------------
(* Lorentz.__init__ *)

(* coordinate 0 as the code sets it: sqrt(1 + norm(row[1:])) *)
dim0(row) == Sqrt(Add(One, norm(Tail(row))))

(* spatial parts nn.init.uniform_ can draw from [-init_range, init_range]:  *)
(* the origin, a point near it, a point of norm about 1.618 (where the     *)
(* row's Lorentz square, as dim0 leaves it, changes sign) and one beyond   *)
InitSpatial ==
    {w \in { <<Zero, Zero>>,
             <<Round(9, -5), Zero>>,
             <<Round(-3, -3), Round(5, -3)>>,
             <<Round(51, -5), Round(9, -5)>>,
             <<FromInt(2), One>> } :
        \A i \in 1..Len(w) : ~Lt(FromInt(InitRange), w[i]) /\ ~Lt(w[i], FromInt(-InitRange))}

InitRow(s) == <<dim0(<<Zero>> \o s)>> \o s

InitTables == {[r \in Rows |-> InitRow(w[r])] : w \in [Rows -> InitSpatial]}

-----------------------------------------------------------------------------
(* RSGD.step *)

learning_rate == Div(One, FromInt(10))

None == <<>>

Flatten(g) == Tensor([i \in 1..(Len(g) * dim) |-> g[((i - 1) \div dim) + 1][((i - 1) % dim) + 1]])

(* gl = eye(D); gl[0, 0] = -1 *)
gl == [k \in Cols |-> [c \in Cols |-> IF k # c THEN Zero ELSE IF k = 1 THEN Neg(One) ELSE One]]

(* a row divided by a scalar *)
DivRow(row, n) == Tensor([c \in Cols |-> Div(row[c], n)])

(* a @ gl, for one row a *)
MatMulGl(a) ==
    Tensor([c \in Cols |-> SumFrom(Tensor([k \in Cols |-> Mul(a[k], gl[k][c])]), 1, Zero)])

(* p.grad.data / grad_norm @ gl with the norm given *)
MetricGradBy(g, grad_norm) == Tensor([r \in 1..Len(g) |-> MatMulGl(DivRow(g[r], grad_norm))])

(* mutant: the gradient normalised row by row instead of by its overall norm *)
MetricGradPerRow(g) == Tensor([r \in 1..Len(g) |-> MatMulGl(DivRow(g[r], norm(g[r])))])

(* grad_norm = torch.norm(p.grad.data); h = (p.grad.data / grad_norm) @ gl *)
MetricGrad(g) == MetricGradBy(g, norm(Flatten(g)))

(* h - c * p, for one row *)
ProjBy(p, h, c) == Tensor([d \in Cols |-> Sub(h[d], Mul(c, p[d]))])

(* mutant: the projection without the division by <p,p>_L *)
ProjUndivided(p, h) == ProjBy(p, h, lorentz_scalar_product(p, h))

(* proj = h - (<p,h>_L / <p,p>_L).unsqueeze(1) * p, for one row *)
Proj(p, h) ==
    ProjBy(p, h, Div(lorentz_scalar_product(p, h), lorentz_scalar_product(p, p)))

(* a * row *)
MulRow(a, row) == Tensor([c \in Cols |-> Mul(a, row[c])])

(* -group["learning_rate"] * proj, with h given *)
TangentBy(p, h) ==
    Tensor([r \in 1..Len(p) |-> MulRow(Neg(learning_rate), Proj(p[r], h[r]))])

Tangent(p, g) == TangentBy(p, MetricGrad(g))

(* update = exp_map(p, -lr * proj) *)
Retract(p, g) == exp_map(p, Tangent(p, g))

(* update = torch.where(is_nan_inf, p, update) *)
Fallback(p, u) ==
    Tensor([r \in 1..Len(p) |->
        Tensor([c \in Cols |-> IF isnan(u[r][c]) \/ isinf(u[r][c]) THEN p[r][c] ELSE u[r][c]])])

(* update[:, 0] = sqrt(1 + norm(update[:, 1:], dim=1)) *)
Reimpose(u) == Tensor([r \in 1..Len(u) |-> <<dim0(u[r])>> \o Tail(u[r])])

Committed(p, u) == Reimpose(Fallback(p, u))

(* gradients a caller can leave in p.grad *)
GradRows ==
    { <<Zero, Zero, Zero>>,
      <<FromInt(-1), FromInt(-1), Zero>>,
      <<FromInt(2), Zero, Round(-3, -1)>>,
      <<NaN, Zero, Zero>>,
      <<Zero, PInf, Zero>> }

Grads == [Rows -> GradRows]

(* values of the variables an operation under study does not use *)
MapIdle == arg_x = None /\ arg_v = None /\ result = None
SampleIdle == pairs = {} /\ todo = <<>> /\ I = <<>> /\ Ks = <<>>
TrainIdle ==
    /\ epoch = 0 /\ j = 0 /\ loss = "zero" /\ loss_batch = "zero"
    /\ snap = "None" /\ atForward = None /\ touched = {} /\ plotted = None
OptIdle == table = None /\ grad = None /\ pre = None /\ retr = None /\ nsteps = 0

Init ==
    /\ table \in InitTables
    /\ grad = None
    /\ pre = table
    /\ retr = table
    /\ nsteps = 0
    /\ pc = "step"
    /\ MapIdle /\ SampleIdle /\ TrainIdle

(* RSGD.step with p.grad None: the parameter is skipped *)
StepSkip ==
    /\ nsteps < MaxSteps
    /\ grad = None
    /\ nsteps' = nsteps + 1
    /\ pre' = table
    /\ retr' = table
    /\ UNCHANGED <<table, grad, mapVars, sampleVars, pc, trainVars>>

(* RSGD.step after the caller has left gradient g in p.grad *)
Step(g) ==
    /\ nsteps < MaxSteps
    /\ grad' = g
    /\ retr' = Retract(table, g)
    /\ table' = Committed(table, retr')
    /\ pre' = table
    /\ nsteps' = nsteps + 1
    /\ UNCHANGED <<mapVars, sampleVars, pc, trainVars>>

Next ==
    \/ StepSkip
    \/ \E g \in Grads : Step(g)

Spec == Init /\ [][Next]_vars

-----------------------------------------------------------------------------
(* Lorentz.forward: the distances *)

(* dists = -lorentz_scalar_product(ui, uks);                               *)
(* dists = torch.where(dists < 1, torch.ones_like(dists), dists)           *)
ClampOff(d) == d

Clamp(d) == IF Lt(d, One) THEN One ELSE d

ArcoshArg(t, i, k) == Clamp(Neg(lorentz_scalar_product(t[i], t[k])))

(* torch.log, kept to the sign and class of its result *)
Log(y) ==
    IF isnan(y) \/ y = NInf \/ (IsFinite(y) /\ y[1] < 0) THEN "nan"
    ELSE IF y = PInf THEN "+inf"
    ELSE IF y[1] = 0 THEN "-inf"
    ELSE IF y = One THEN "zero"
    ELSE IF Lt(y, One) THEN "negative"
    ELSE "positive"

(* arcosh(x) = log(x + sqrt(x ** 2 - 1)) *)
arcosh(x) == Log(Add(x, Sqrt(Sub(Mul(x, x), One))))

-----------------------------------------------------------------------------
(* Properties of the optimizer and of the table it maintains *)

RowFinite(row) == \A c \in Cols : IsFinite(row[c])
AbsF(a) == IF a[1] < 0 THEN Neg(a) ELSE a
(* a <= b for two floats that are not NaN *)
Le(a, b) == ~Lt(b, a)

(* rounding slack: 2^-(MantBits - 4), sixteen units in the last place *)
Eps == Round(1, 4 - MantBits)

SumSquares(row) == SumFrom([i \in 1..(dim - 1) |-> Mul(row[i + 1], row[i + 1])], 1, Zero)

OnHyperboloid(row) ==
    /\ RowFinite(row)
    /\ Gt0(row[1])
    /\ LET want == Add(One, SumSquares(row))
       IN Le(AbsF(Sub(Mul(row[1], row[1]), want)), Mul(Eps, want))

(* C1: every row of the table satisfies <x,x>_L = -1, that is x_0 > 0 and  *)
(* x_0^2 = 1 + x_1^2 + ... + x_D^2 (up to rounding), after __init__ and    *)
(* after every RSGD.step.                                                  *)
C1_OnManifold == \A r \in Rows : OnHyperboloid(table[r])

HasNanInf(row) == \E c \in Cols : isnan(row[c]) \/ isinf(row[c])

(* C2: a row of the retraction result that holds NaN or Inf in some        *)
(* coordinate is committed as the pre-step row, in every coordinate.       *)
C2_WholeRowReverted ==
    \A r \in Rows : HasNanInf(retr[r]) => table[r] = pre[r]

(* a gradient is malformed when an entry is NaN or Inf, or its overall norm is 0 *)
Malformed(g) == (\E r \in 1..Len(g) : HasNanInf(g[r])) \/ norm(Flatten(g)) = Zero

ZeroRow == [c \in Cols |-> Zero]

(* the gradient with its NaN/Inf rows left out (zero) *)
Sanitized(g) == [r \in 1..Len(g) |-> IF HasNanInf(g[r]) THEN ZeroRow ELSE g[r]]

Stepped == nsteps > 0 /\ grad # None

(* C3 as stated: on a malformed gradient each row whose own gradient is    *)
(* malformed keeps its pre-step value, no NaN or Inf enters the table, and *)
(* the rows whose own gradient is well-formed are still updated.           *)
C3_PerRowNoOp ==
    (Stepped /\ Malformed(grad)) =>
        /\ \A r \in Rows : \A c \in Cols : IsFinite(pre[r][c]) => IsFinite(table[r][c])
        /\ \A r \in Rows :
             IF HasNanInf(grad[r]) THEN table[r] = pre[r]
             ELSE table[r] = Committed(pre, Retract(pre, Sanitized(grad)))[r]

(* C3 amended: on a malformed gradient RSGD.step leaves every row of the   *)
(* table at its pre-step value (also the rows whose own gradient is        *)
(* well-formed), so no NaN or Inf enters the table.                        *)
C3_MalformedIsNoOp == (Stepped /\ Malformed(grad)) => table = pre

(* a step on a gradient with a NaN/Inf row and a well-formed row that alone would move its point *)
C3_Witness ==
    /\ Stepped
    /\ Malformed(grad)
    /\ table = pre
    /\ \E r \in Rows :
         /\ ~HasNanInf(grad[r])
         /\ Committed(pre, Retract(pre, Sanitized(grad)))[r] # pre[r]

(* C5: for every (anchor, candidate) pair of finite table rows the value   *)
(* handed to arcosh is not NaN and not below 1, so the distance            *)
(* log(x + sqrt(x^2 - 1)) is not NaN and not negative.                     *)
C5_ArcoshDomain ==
    \A i \in Rows : \A k \in Rows :
        (RowFinite(table[i]) /\ RowFinite(table[k])) =>
            LET x == ArcoshArg(table, i, k)
            IN /\ ~isnan(x)
               /\ ~Lt(x, One)
               /\ arcosh(x) \in {"zero", "positive", "+inf"}

(* a reachable pair whose -<u,v>_L is below 1, so that the clamp acts, after a step moved a row *)
C5_Witness ==
    /\ nsteps > 0
    /\ table # pre
    /\ \E i \in Rows : \E k \in Rows :
         /\ RowFinite(table[i]) /\ RowFinite(table[k])
         /\ Lt(Neg(lorentz_scalar_product(table[i], table[k])), One)
         /\ ArcoshArg(table, i, k) = One

(* C10: for every row p with <p,p>_L # 0 and its metric-corrected gradient *)
(* row h, proj = h - (<p,h>_L / <p,p>_L) * p is tangent at p: <p,proj>_L   *)
(* is 0 up to the rounding of the terms it is computed from.               *)
C10_ProjTangent ==
    Stepped =>
        LET h == MetricGrad(grad)
        IN \A r \in Rows :
            LET p == pre[r]
                pp == lorentz_scalar_product(p, p)
                c == Div(lorentz_scalar_product(p, h[r]), pp)
                pr == Proj(p, h[r])
                size == SumFrom([d \in Cols |->
                            Mul(AbsF(p[d]), Add(AbsF(h[r][d]), AbsF(Mul(c, p[d]))))], 1, Zero)
            IN (RowFinite(p) /\ RowFinite(h[r]) /\ RowFinite(pr) /\ pp # Zero /\ IsFinite(size))
                   => Le(AbsF(lorentz_scalar_product(p, pr)), Mul(Eps, size))

(* a step whose gradient row has a component along p, which the projection removed *)
C10_Witness ==
    /\ Stepped
    /\ \E r \in Rows :
         LET h == MetricGrad(grad)[r]
             pr == Proj(pre[r], h)
         IN /\ RowFinite(pre[r]) /\ RowFinite(h) /\ RowFinite(pr)
            /\ lorentz_scalar_product(pre[r], pre[r]) # Zero
            /\ lorentz_scalar_product(pre[r], h) # Zero
            /\ pr # h

-----------------------------------------------------------------------------
(* exp_map as a function of its arguments *)

BatchRows == 2

(* points: the rows Lorentz.__init__ can produce *)
MapPoints == {InitRow(s) : s \in InitSpatial}

(* tangent vectors: zero, lightlike (tn = 0 with v # 0), spacelike (tn > 0), *)
(* timelike (tn = NaN), and rows holding NaN or Inf                          *)
MapVectors ==
    { ZeroRow,
      <<One, One, Zero>>,
      <<Zero, Round(3, -2), Neg(Half)>>,
      <<One, Zero, Zero>>,
      <<NaN, Zero, Zero>>,
      <<Zero, PInf, Zero>> }

InitMap ==
    /\ arg_x \in [1..BatchRows -> MapPoints]
    /\ arg_v \in [1..BatchRows -> MapVectors]
    /\ result = None
    /\ pc = "exp_map"
    /\ OptIdle /\ SampleIdle /\ TrainIdle

CallExpMap ==
    /\ pc = "exp_map"
    /\ result' = exp_map(arg_x, arg_v)
    /\ pc' = "returned"
    /\ UNCHANGED <<optVars, arg_x, arg_v, sampleVars, trainVars>>

NextMap == CallExpMap

SpecExpMap == InitMap /\ [][NextMap]_vars

(* C4: exp_map returns x itself, with no NaN, for every row whose tangent   *)
(* norm is 0, whatever the other rows of the batch hold; for a row with     *)
(* tangent norm tn > 0 it returns cosh(tn) * x + sinh(tn) * v / tn.         *)
C4_ExpMapRows ==
    result # None =>
        \A r \in 1..BatchRows :
            LET tn == tangent_norm(arg_v[r])
            IN /\ tn = Zero => (result[r] = arg_x[r] /\ ~HasNanInf(result[r]))
               /\ Gt0(tn) =>
                    \A c \in Cols :
                        result[r][c] = Add(Mul(CoshSinh(tn)[1], arg_x[r][c]),
                                           Mul(CoshSinh(tn)[2], Div(arg_v[r][c], tn)))

(* a returned batch with a nonzero vector of tangent norm 0 in one row and a *)
(* moved point or a NaN/Inf row next to it                                   *)
C4_Witness ==
    /\ result # None
    /\ \E r \in 1..BatchRows : \E q \in 1..BatchRows :
         /\ r # q
         /\ tangent_norm(arg_v[r]) = Zero /\ arg_v[r] # ZeroRow
         /\ result[r] = arg_x[r]
         /\ HasNanInf(result[q])

-----------------------------------------------------------------------------
(* __main__: the graph and the training samples *)

num_q == 2
num_d == 4
sample_size == 3

(* the script numbers the nodes from 0; here they are the table rows 1.. *)
q_nodes == 1..num_q
d_nodes == (num_q + 1)..(num_q + num_d)

(* insert: document i is connected to the first randint(1, 3) questions of *)
(* a random permutation, that is to any 1 or 2 of them                     *)
Connections ==
    {S \in SUBSET q_nodes : Cardinality(S) \in {Min2(1, num_q), Min2(2, num_q)}}

PairsOf(conn) == UNION {{<<q, i>> : q \in conn[i]} : i \in d_nodes}

Before(a, b) == a[1] < b[1] \/ (a[1] = b[1] /\ a[2] <= b[2])

(* `for x, y in pairs` visits the set in an order the hashes fix; the model *)
(* takes the ascending or the descending order of the pairs                 *)
RECURSIVE InOrder(_, _)
InOrder(S, up) ==
    IF S = {} THEN <<>>
    ELSE LET m == CHOOSE a \in S : \A b \in S : IF up THEN Before(a, b) ELSE Before(b, a)
         IN <<m>> \o InOrder(S \ {m}, up)

(* np.random.permutation(arange) *)
permutation(S) ==
    {f \in [1..Cardinality(S) -> S] : \A a, b \in 1..Cardinality(S) : f[a] = f[b] => a = b}

(* mutant: every document is taken as a negative candidate *)
KeepAny(x, k, pr) == k # x

(* (x, _) not in pairs and _ != x *)
KeepCandidate(x, k, pr) == <<x, k>> \notin pr /\ k # x

(* the loop over temp, from position i on, with temp_Ks so far *)
RECURSIVE Scan(_, _, _, _, _)
Scan(x, temp, pr, i, temp_Ks) ==
    IF i > Len(temp) THEN temp_Ks
    ELSE LET t == IF KeepCandidate(x, temp[i], pr) THEN Append(temp_Ks, temp[i]) ELSE temp_Ks
         IN IF Len(t) = sample_size THEN t ELSE Scan(x, temp, pr, i + 1, t)

InitSample ==
    /\ pc = "insert"
    /\ pairs = {} /\ todo = <<>> /\ I = <<>> /\ Ks = <<>>
    /\ OptIdle /\ MapIdle /\ TrainIdle

(* pairs = insert(q=num_q, d=num_d); shuffle; pairs = set(pairs); I = []; Ks = [] *)
Insert ==
    /\ pc = "insert"
    /\ \E conn \in [d_nodes -> Connections] : \E up \in BOOLEAN :
          /\ pairs' = PairsOf(conn)
          /\ todo' = InOrder(PairsOf(conn), up)
    /\ I' = <<>>
    /\ Ks' = <<>>
    /\ pc' = "sample"
    /\ UNCHANGED <<optVars, mapVars, trainVars>>

(* one pass of the body of `for x, y in pairs` *)
BuildRow ==
    /\ pc = "sample"
    /\ todo # <<>>
    /\ \E temp \in permutation(d_nodes) :
          LET x == Head(todo)[1]
              y == Head(todo)[2]
          IN /\ I' = Append(I, x)
             /\ Ks' = Append(Ks, Scan(x, temp, pairs, 1, <<y>>))
    /\ todo' = Tail(todo)
    /\ UNCHANGED <<optVars, mapVars, pairs, pc, trainVars>>

(* I = torch.tensor(I); Ks = torch.tensor(Ks): rows of unequal length raise *)
ToTensor ==
    /\ pc = "sample"
    /\ todo = <<>>
    /\ pc' = IF \A a, b \in 1..Len(Ks) : Len(Ks[a]) = Len(Ks[b]) THEN "train" ELSE "ValueError"
    /\ UNCHANGED <<optVars, mapVars, sampleVars, trainVars>>

NextSample == Insert \/ BuildRow \/ ToTensor

SpecSample == InitSample /\ [][NextSample]_vars

(* the graph in which document i hangs on question ((i - 1) mod num_q) + 1, *)
(* visited in ascending order with temp in ascending order                  *)
TrainPairs == {<<((i - 1) % num_q) + 1, i>> : i \in d_nodes}
TrainI == [n \in 1..Cardinality(TrainPairs) |-> InOrder(TrainPairs, TRUE)[n][1]]
TrainKs ==
    [n \in 1..Cardinality(TrainPairs) |->
        Scan(TrainI[n], [i \in 1..num_d |-> num_q + i], TrainPairs, 1,
             <<InOrder(TrainPairs, TRUE)[n][2]>>)]

(* C8: in every sample row the candidate at index 0 is a document y with    *)
(* (x, y) an edge of the graph, and every later candidate is a document _   *)
(* with (x, _) not an edge.                                                 *)
C8_SampleRows ==
    \A n \in 1..Len(Ks) :
        /\ Ks[n][1] \in d_nodes
        /\ <<I[n], Ks[n][1]>> \in pairs
        /\ \A m \in 2..Len(Ks[n]) :
             Ks[n][m] \in d_nodes /\ <<I[n], Ks[n][m]>> \notin pairs

(* the finished samples of TrainPairs: every row a positive and two negatives *)
C8_Witness ==
    /\ pc = "train"
    /\ pairs = TrainPairs /\ I = TrainI /\ Ks = TrainKs
    /\ \A n \in 1..Len(Ks) : Len(Ks[n]) = sample_size

-----------------------------------------------------------------------------
(* __main__: the training loop *)

batch_size == 2
epochs == 2
plot_every == 500

(* the rows I[j : j + batch_size] of the samples, j counted from 0 *)
BatchOf(jj) == {n \in 1..Len(I) : jj < n /\ n <= jj + batch_size}

(* the table rows a batch indexes: its anchors and its candidates *)
Touched(B) == {I[n] : n \in B} \cup UNION {{Ks[n][m] : m \in 1..Len(Ks[n])} : n \in B}

(* -arcosh(dists) for the pair (i, k), by the class of arcosh's value *)
Dist(t, i, k) == arcosh(ArcoshArg(t, i, k))

(* loss = -(dists[:, 0] - log(exp(dists).sum(dim=1) + 1e-6)) for one sample row, *)
(* as "nan", "inf" or "finite"                                                   *)
LossRow(t, i, ks) ==
    LET d == [m \in 1..Len(ks) |-> Dist(t, i, ks[m])]
    IN IF \E m \in 1..Len(ks) : d[m] = "nan" THEN "nan"
       ELSE IF d[1] = "-inf" THEN "nan"
       ELSE IF d[1] = "+inf" \/ (\E m \in 1..Len(ks) : d[m] = "-inf") THEN "inf"
       ELSE "finite"

(* the sum of two losses, by class; 0 is the start value of the epoch *)
LossAdd(a, b) ==
    IF a = "nan" \/ b = "nan" THEN "nan"
    ELSE IF a = "inf" \/ b = "inf" THEN "inf"
    ELSE "finite"

(* loss_batch.mean() *)
LossMean(t, B) ==
    IF \E n \in B : LossRow(t, I[n], Ks[n]) = "nan" THEN "nan"
    ELSE IF \E n \in B : LossRow(t, I[n], Ks[n]) = "inf" THEN "inf"
    ELSE "finite"

(* the gradients loss_batch.backward() may add: rows outside the batch get  *)
(* nothing; the rows of the batch all get one of GradRows, or one candidate *)
(* of the first sample alone gets a finite gradient                         *)
BatchGrads(B) ==
    LET T == Touched(B)
        first == CHOOSE n \in B : \A m \in B : n <= m
        k == Ks[first][Len(Ks[first])]
    IN {[r \in 1..Len(table) |-> IF r \in T THEN g ELSE ZeroRow] : g \in GradRows}
       \cup {[r \in 1..Len(table) |-> IF r = k THEN <<Neg(One), Neg(One), Zero>> ELSE ZeroRow]}

(* backward accumulates into p.grad; nothing in the script clears it *)
Accumulate(old, g) ==
    IF old = None THEN g
    ELSE Tensor([r \in 1..Len(g) |-> Tensor([c \in Cols |-> Add(old[r][c], g[r][c])])])

(* mutant: only NaN counts as divergence *)
DivergedNanOnly(l) == l = "nan"

(* torch.isnan(loss) or torch.isinf(loss) *)
Diverged(l) == l \in {"nan", "inf"}

(* Lorentz(num_q + num_d, emb_dim + 1): the questions start on one point, *)
(* the documents on one point                                            *)
TrainTables ==
    {[r \in 1..(num_q + num_d) |-> InitRow(IF r <= num_q THEN w[1] ELSE w[2])] :
        w \in InitSpatial \X InitSpatial}

InitTrain ==
    /\ pairs = TrainPairs /\ todo = <<>> /\ I = TrainI /\ Ks = TrainKs
    /\ table \in TrainTables
    /\ grad = None /\ pre = table /\ retr = table /\ nsteps = 0
    /\ pc = "forward"
    /\ epoch = 0 /\ j = 0 /\ loss = "zero" /\ loss_batch = "zero"
    /\ snap = "None" /\ atForward = None /\ touched = {} /\ plotted = None
    /\ MapIdle

(* loss_batch, table = net(I[j : j + batch_size], Ks[j : j + batch_size]);  *)
(* j += batch_size.  The second value is weight.data.numpy(): an array on   *)
(* the storage of the weight, not a copy                                    *)
Forward ==
    /\ pc = "forward"
    /\ loss_batch' = LossMean(table, BatchOf(j))
    /\ snap' = "weight"
    /\ atForward' = table
    /\ touched' = Touched(BatchOf(j))
    /\ j' = j + batch_size
    /\ pc' = "backward"
    /\ UNCHANGED <<optVars, mapVars, sampleVars, epoch, loss, plotted>>

(* loss_batch.backward(); loss += loss_batch *)
Backward ==
    /\ pc = "backward"
    /\ \E g \in BatchGrads(BatchOf(j - batch_size)) : grad' = Accumulate(grad, g)
    /\ loss' = LossAdd(loss, loss_batch)
    /\ pc' = "step"
    /\ UNCHANGED <<table, pre, retr, nsteps, mapVars, sampleVars,
                   epoch, j, loss_batch, snap, atForward, touched, plotted>>

(* r.step(), then the test of `while j < len(I)` *)
TrainStep ==
    /\ pc = "step"
    /\ retr' = Retract(table, grad)
    /\ table' = Committed(table, retr')
    /\ pre' = table
    /\ nsteps' = nsteps + 1
    /\ pc' = IF j < Len(I) THEN "forward" ELSE "epoch_end"
    /\ UNCHANGED <<grad, mapVars, sampleVars, trainVars>>

(* what the array named by snap holds now *)
Deref(ref) == IF ref = "weight" THEN table ELSE None

(* the end of the body of `for epoch in range(epochs)` *)
EpochEnd ==
    /\ pc = "epoch_end"
    /\ plotted' = IF epoch % plot_every = 0 THEN <<Deref(snap), atForward>> ELSE plotted
    /\ IF Diverged(loss)
         THEN pc' = "break" /\ UNCHANGED <<epoch, j, loss>>
         ELSE IF epoch + 1 < epochs
                 THEN pc' = "forward" /\ epoch' = epoch + 1 /\ j' = 0 /\ loss' = "zero"
                 ELSE pc' = "exhausted" /\ UNCHANGED <<epoch, j, loss>>
    /\ UNCHANGED <<optVars, mapVars, sampleVars, loss_batch, snap, atForward, touched>>

NextTrain == Forward \/ Backward \/ TrainStep \/ EpochEnd

SpecTrain == InitTrain /\ [][NextTrain]_vars

Final == {"break", "exhausted"}

(* C6: the table value forward returned is a snapshot: as long as the name *)
(* refers to it, it holds what the table held when forward ran, and that   *)
(* is what dikhaao is given to draw.                                       *)
C6_SnapshotFrozen ==
    /\ snap # "None" => Deref(snap) = atForward
    /\ plotted # None => plotted[1] = plotted[2]

(* C7: the loop ends only from the end of an epoch; there a NaN or Inf loss *)
(* ends it with no further forward pass or step, and a finite loss leads to *)
(* the next epoch, or to the end once the epoch bound is reached.           *)
C7_StopsAtEpochEnd ==
    [][ /\ pc \notin Final
        /\ pc' \in Final => pc = "epoch_end"
        /\ (pc = "epoch_end" /\ loss \in {"nan", "inf"}) =>
               (pc' = "break" /\ table' = table /\ nsteps' = nsteps)
        /\ (pc = "epoch_end" /\ loss = "finite") =>
               IF epoch + 1 < epochs
               THEN pc' = "forward" /\ epoch' = epoch + 1 /\ j' = 0
               ELSE pc' = "exhausted"
        /\ pc # "epoch_end" => pc' \in {"forward", "backward", "step", "epoch_end"} ]_vars

(* the loop left by break, on an infinite loss, before the last epoch *)
C7_Witness ==
    /\ pc = "break"
    /\ loss = "inf"
    /\ epoch + 1 < epochs
    /\ nsteps > 0

(* C9: after a step, every table row that is neither an anchor nor a        *)
(* candidate of the batch just trained on holds what it held before the     *)
(* step.                                                                    *)
C9_OnlyBatchRowsMove ==
    (nsteps > 0 /\ pc \in {"forward", "epoch_end", "break", "exhausted"}) =>
        \A r \in 1..Len(table) : r \notin touched => table[r] = pre[r]

=============================================================================
